---- MODULE Spec2Model ----
(***************************************************************************)
(* A model of ogty/english-learning-tools (src/main.py): the morphological *)
(* analyzer's tag lookup, the formatter that lays tokens and tags out in   *)
(* aligned terminal lines, and the interactive read-eval-print loop.       *)
(*                                                                         *)
(* A Python str is a sequence of characters.  An ASCII character is the    *)
(* one-character string, any other character is written "U+XXXX" after its *)
(* code point, and "ESC" is the escape control character (U+001B).         *)
(***************************************************************************)
EXTENDS Integers, Sequences, FiniteSets, TLC

VARIABLES
    \* TextsFormatter.adjust_length_ja_en called on its own
    ja_string, width, wpc,
    \* the TextsFormatter object (src/main.py:107-111) and its terminal
    is_list, is_translate, language_code, color_enabled, colors_to_remove, tty,
    \* one call of TextsFormatter.format_token_tag_pairs
    token_tag_pairs, tags, color_tag, composed, cpc,
    \* one call of TextsFormatter.format
    texts_data, formatted_texts, formatted_text, fpc,
    translate_calls, terminal_calls, format_result, format_error,
    \* the MorphologicalAnalyzer object and one call of analyze
    tag_type, tagged, result, analyze_result, apc, lookups,
    \* the InteractiveMode object and its run()
    running, rpc, command, reads, analyzed, formatted, printed,
    start_calls, stop_calls, clear_calls, help_calls, outcome

widthVars == <<ja_string, width, wpc>>
configVars == <<is_list, is_translate, language_code, color_enabled,
                colors_to_remove, tty>>
composeVars == <<token_tag_pairs, tags, color_tag, composed, cpc>>
formatVars == <<texts_data, formatted_texts, formatted_text, fpc,
                translate_calls, terminal_calls, format_result, format_error>>
analyzeVars == <<tag_type, tagged, result, analyze_result, apc, lookups>>
replVars == <<running, rpc, command, reads, analyzed, formatted, printed,
              start_calls, stop_calls, clear_calls, help_calls, outcome>>
vars == <<widthVars, configVars, composeVars, formatVars, analyzeVars, replVars>>

(***************************************************************************)
(* Bounds of the model.                                                    *)
(***************************************************************************)
MaxLen == 3
MaxPairs == 3
MaxSentences == 2
MaxColumns == 2
MaxReads == 3

(***************************************************************************)
(* Python built-ins the code uses.                                         *)
(***************************************************************************)
Max(a, b) == IF a >= b THEN a ELSE b

Min(a, b) == IF a <= b THEN a ELSE b

Range(f) == {f[i] : i \in DOMAIN f}

\* n * c: the character c repeated n times
Repeat(c, n) == [i \in 1..n |-> c]

\* s.ljust(n, fill): s itself when it already has n characters
ljust(str, n, fill) ==
    IF Len(str) >= n THEN str ELSE str \o Repeat(fill, n - Len(str))

\* sep.join(parts)
RECURSIVE join(_, _)
join(sep, parts) ==
    IF parts = <<>> THEN <<>>
    ELSE IF Len(parts) = 1 THEN parts[1]
    ELSE parts[1] \o sep \o join(sep, Tail(parts))

\* the sequences over S of length at most n
SeqsUpTo(S, n) == UNION {[1..k -> S] : k \in 0..n}

\* the orders in which a set may be iterated: Python does not fix it for a
\* set of str (the hash of a str differs from one process to the next)
IterationOrders(S) ==
    {o \in [1..Cardinality(S) -> S] : \A i, j \in DOMAIN o : i # j => o[i] # o[j]}

\* sorted(items, key=len): stable, so equal lengths keep the order of items
RECURSIVE sorted_by_len(_)
InsertByLen(x, done) ==
    LET later == {i \in DOMAIN done : Len(done[i]) > Len(x)}
        at == IF later = {} THEN Len(done) + 1
              ELSE CHOOSE i \in later : \A j \in later : i <= j
    IN SubSeq(done, 1, at - 1) \o <<x>> \o SubSeq(done, at, Len(done))

sorted_by_len(items) ==
    IF items = <<>> THEN <<>>
    ELSE InsertByLen(items[Len(items)],
                     sorted_by_len(SubSeq(items, 1, Len(items) - 1)))

(***************************************************************************)
(* unicodedata: the characters of the tag table and of the inputs.         *)
(***************************************************************************)
\* the characters whose East-Asian-width property is Wide
WideChars ==
    { "U+3059", "U+306E", "U+308A", "U+308F", "U+3092", "U+4E09", "U+4E0A", "U+4E0D",
      "U+4EBA", "U+4EE3", "U+4EE5", "U+5206", "U+524D", "U+526F", "U+52D5", "U+5316",
      "U+5358", "U+539F", "U+53BB", "U+53F7", "U+540D", "U+5606", "U+56FA", "U+56FD",
      "U+5728", "U+57FA", "U+5909", "U+5916", "U+5B58", "U+5B9A", "U+5BB9", "U+5C5E",
      "U+5F62", "U+5F93", "U+611F", "U+6240", "U+63A5", "U+6570", "U+6574", "U+6700",
      "U+6709", "U+683C", "U+6BD4", "U+6CD5", "U+73FE", "U+79F0", "U+7D1A", "U+7D42",
      "U+7D9A", "U+7F6E", "U+8868", "U+8907", "U+8A18", "U+8A5E", "U+8A9E", "U+8ABF",
      "U+8F03", "U+8F9E", "U+904E", "U+9650",
      "U+337F", "U+338F", "U+682A", "U+5F0F", "U+4F1A", "U+793E",
      "U+72AC", "U+5C0F", "U+5C4B" }

\* Fullwidth (U+FF21 is the fullwidth A) and Ambiguous (the underline and
\* rule glyphs) characters
FullwidthChars == {"U+FF21"}

AmbiguousChars == {"U+2594", "U+2500"}

east_asian_width(character) ==
    IF character \in WideChars THEN "W"
    ELSE IF character \in FullwidthChars THEN "F"
    ELSE IF character \in AmbiguousChars THEN "A"
    ELSE "Na"

\* NFKC of one character: U+337F is the square form of four ideographs,
\* U+338F the square kg, U+FF21 the fullwidth A; the others are unchanged
NFKC(character) ==
    CASE character = "U+337F" -> <<"U+682A", "U+5F0F", "U+4F1A", "U+793E">>
      [] character = "U+338F" -> <<"k", "g">>
      [] character = "U+FF21" -> <<"A">>
      [] OTHER -> <<character>>

RECURSIVE normalize(_)
normalize(str) ==
    IF str = <<>> THEN <<>> ELSE NFKC(Head(str)) \o normalize(Tail(str))

(***************************************************************************)
(* TextsFormatter.adjust_length_ja_en                                      *)
(***************************************************************************)
RECURSIVE SumWidths(_)
SumWidths(ja_characters) ==
    IF ja_characters = <<>> THEN 0
    ELSE (IF east_asian_width(Head(ja_characters)) = "W" THEN 2 ELSE 1)
         + SumWidths(Tail(ja_characters))

adjust_length_ja_en(str) ==
    LET ja_characters == normalize(str)
    IN SumWidths(ja_characters)

(***************************************************************************)
(* MorphologicalAnalyzer.tag_table: tag code -> <<expansion, Japanese>>    *)
(***************************************************************************)
tag_table_keys ==
    { <<"C", "C">>,
      <<"C", "D">>,
      <<"D", "T">>,
      <<"E", "X">>,
      <<"F", "W">>,
      <<"I", "N">>,
      <<"J", "J">>,
      <<"J", "J", "R">>,
      <<"J", "J", "S">>,
      <<"L", "S">>,
      <<"M", "D">>,
      <<"N", "N">>,
      <<"N", "N", "S">>,
      <<"N", "N", "P">>,
      <<"N", "N", "P", "S">>,
      <<"P", "D", "T">>,
      <<"P", "O", "S">>,
      <<"P", "R", "P">>,
      <<"P", "R", "P", "$">>,
      <<"R", "B">>,
      <<"R", "B", "R">>,
      <<"R", "B", "S">>,
      <<"R", "P">>,
      <<"S", "Y", "M">>,
      <<"T", "O">>,
      <<"U", "H">>,
      <<"V", "B">>,
      <<"V", "B", "D">>,
      <<"V", "B", "G">>,
      <<"V", "B", "N">>,
      <<"V", "B", "P">>,
      <<"V", "B", "Z">>,
      <<"W", "D", "T">>,
      <<"W", "P">>,
      <<"W", "P", "$">>,
      <<"W", "R", "B">>,
      <<",">>,
      <<".">> }

tag_table(code) ==
    CASE code = <<"C", "C">> ->
           << <<"C", "o", "o", "r", "d", "i", "n", "a", "t", "i", "n", "g", " ", "c", "o", "n", "j", "u", "n", "c", "t", "i", "o", "n">>,
              <<"U+8ABF", "U+6574", "U+63A5", "U+7D9A", "U+8A5E">> >>
      [] code = <<"C", "D">> ->
           << <<"C", "a", "r", "d", "i", "n", "a", "l", " ", "n", "u", "m", "b", "e", "r">>,
              <<"U+57FA", "U+6570">> >>
      [] code = <<"D", "T">> ->
           << <<"D", "e", "t", "e", "r", "m", "i", "n", "e", "r">>,
              <<"U+9650", "U+5B9A", "U+8A5E">> >>
      [] code = <<"E", "X">> ->
           << <<"E", "x", "i", "s", "t", "e", "n", "t", "i", "a", "l", " ", "t", "h", "e", "r", "e">>,
              <<"U+5B58", "U+5728", "U+3092", "U+8868", "U+3059", " ", "t", "h", "e", "r", "e">> >>
      [] code = <<"F", "W">> ->
           << <<"F", "o", "r", "e", "i", "g", "n", " ", "w", "o", "r", "d">>,
              <<"U+5916", "U+56FD", "U+8A9E">> >>
      [] code = <<"I", "N">> ->
           << <<"P", "r", "e", "p", "o", "s", "i", "t", "i", "o", "n", " ", "o", "r", " ", "s", "u", "b", "o", "r", "d", "i", "n", "a", "t", "i", "n", "g", " ", "c", "o", "n", "j", "u", "n", "c", "t", "i", "o", "n">>,
              <<"U+524D", "U+7F6E", "U+8A5E", "|", "U+5F93", "U+5C5E", "U+63A5", "U+7D9A", "U+8A5E">> >>
      [] code = <<"J", "J">> ->
           << <<"A", "d", "j", "e", "c", "t", "i", "v", "e">>,
              <<"U+5F62", "U+5BB9", "U+8A5E">> >>
      [] code = <<"J", "J", "R">> ->
           << <<"A", "d", "j", "e", "c", "t", "i", "v", "e", ",", " ", "c", "o", "m", "p", "a", "r", "a", "t", "i", "v", "e">>,
              <<"U+5F62", "U+5BB9", "U+8A5E", "(", "U+6BD4", "U+8F03", "U+7D1A", ")">> >>
      [] code = <<"J", "J", "S">> ->
           << <<"A", "d", "j", "e", "c", "t", "i", "v", "e", ",", " ", "s", "u", "p", "e", "r", "l", "a", "t", "i", "v", "e">>,
              <<"U+5F62", "U+5BB9", "U+8A5E", "(", "U+6700", "U+4E0A", "U+7D1A", ")">> >>
      [] code = <<"L", "S">> ->
           << <<"L", "i", "s", "t", " ", "i", "t", "e", "m", " ", "m", "a", "r", "k", "e", "r">>,
              <<"-">> >>
      [] code = <<"M", "D">> ->
           << <<"M", "o", "d", "a", "l">>,
              <<"U+6CD5">> >>
      [] code = <<"N", "N">> ->
           << <<"N", "o", "u", "n", ",", " ", "s", "i", "n", "g", "u", "l", "a", "r", " ", "o", "r", " ", "m", "a", "s", "s">>,
              <<"U+540D", "U+8A5E">> >>
      [] code = <<"N", "N", "S">> ->
           << <<"N", "o", "u", "n", ",", " ", "p", "l", "u", "r", "a", "l">>,
              <<"U+540D", "U+8A5E", "(", "U+8907", "U+6570", "U+5F62", ")">> >>
      [] code = <<"N", "N", "P">> ->
           << <<"P", "r", "o", "p", "e", "r", " ", "n", "o", "u", "n", ",", " ", "s", "i", "n", "g", "u", "l", "a", "r">>,
              <<"U+56FA", "U+6709", "U+540D", "U+8A5E">> >>
      [] code = <<"N", "N", "P", "S">> ->
           << <<"P", "r", "o", "p", "e", "r", " ", "n", "o", "u", "n", ",", " ", "p", "l", "u", "r", "a", "l">>,
              <<"U+56FA", "U+6709", "U+540D", "U+8A5E", "(", "U+8907", "U+6570", "U+5F62", ")">> >>
      [] code = <<"P", "D", "T">> ->
           << <<"P", "r", "e", "d", "e", "t", "e", "r", "m", "i", "n", "e", "r">>,
              <<"U+524D", "U+9650", "U+5B9A", "U+8F9E">> >>
      [] code = <<"P", "O", "S">> ->
           << <<"P", "o", "s", "s", "e", "s", "s", "i", "v", "e", " ", "e", "n", "d", "i", "n", "g">>,
              <<"U+6240", "U+6709", "U+683C", "U+306E", "U+7D42", "U+308F", "U+308A">> >>
      [] code = <<"P", "R", "P">> ->
           << <<"P", "e", "r", "s", "o", "n", "a", "l", " ", "p", "r", "o", "n", "o", "u", "n">>,
              <<"U+4EBA", "U+79F0", "U+4EE3", "U+540D", "U+8A5E">> >>
      [] code = <<"P", "R", "P", "$">> ->
           << <<"P", "o", "s", "s", "e", "s", "s", "i", "v", "e", " ", "p", "r", "o", "n", "o", "u", "n">>,
              <<"U+6240", "U+6709", "U+4EE3", "U+540D", "U+8A5E">> >>
      [] code = <<"R", "B">> ->
           << <<"A", "d", "v", "e", "r", "b">>,
              <<"U+526F", "U+8A5E">> >>
      [] code = <<"R", "B", "R">> ->
           << <<"A", "d", "v", "e", "r", "b", ",", " ", "c", "o", "m", "p", "a", "r", "a", "t", "i", "v", "e">>,
              <<"U+526F", "U+8A5E", "(", "U+6BD4", "U+8F03", "U+7D1A", ")">> >>
      [] code = <<"R", "B", "S">> ->
           << <<"A", "d", "v", "e", "r", "b", ",", " ", "s", "u", "p", "e", "r", "l", "a", "t", "i", "v", "e">>,
              <<"U+526F", "U+8A5E", "(", "U+6700", "U+4E0A", "U+7D1A", ")">> >>
      [] code = <<"R", "P">> ->
           << <<"P", "a", "r", "t", "i", "c", "l", "e">>,
              <<"U+4E0D", "U+5909", "U+5316", "U+8A5E">> >>
      [] code = <<"S", "Y", "M">> ->
           << <<"S", "y", "m", "b", "o", "l">>,
              <<"U+8A18", "U+53F7">> >>
      [] code = <<"T", "O">> ->
           << <<"t", "o">>,
              <<"U+524D", "U+7F6E", "U+8A5E", " ", "t", "o">> >>
      [] code = <<"U", "H">> ->
           << <<"I", "n", "t", "e", "r", "j", "e", "c", "t", "i", "o", "n">>,
              <<"U+611F", "U+5606", "U+8A5E">> >>
      [] code = <<"V", "B">> ->
           << <<"V", "e", "r", "b", ",", " ", "b", "a", "s", "e", " ", "f", "o", "r", "m">>,
              <<"U+52D5", "U+8A5E", "(", "U+539F", "U+5F62", ")">> >>
      [] code = <<"V", "B", "D">> ->
           << <<"V", "e", "r", "b", ",", " ", "p", "a", "s", "t", " ", "t", "e", "n", "s", "e">>,
              <<"U+52D5", "U+8A5E", "(", "U+904E", "U+53BB", "U+5F62", ")">> >>
      [] code = <<"V", "B", "G">> ->
           << <<"V", "e", "r", "b", ",", " ", "g", "e", "r", "u", "n", "d", " ", "o", "r", " ", "p", "r", "e", "s", "e", "n", "t", " ", "p", "a", "r", "t", "i", "c", "i", "p", "l", "e">>,
              <<"U+52D5", "U+8A5E", "(", "U+52D5", "U+540D", "U+8A5E", "|", "U+73FE", "U+5728", "U+5206", "U+8A5E", ")">> >>
      [] code = <<"V", "B", "N">> ->
           << <<"V", "e", "r", "b", ",", " ", "p", "a", "s", "t", " ", "p", "a", "r", "t", "i", "c", "i", "p", "l", "e">>,
              <<"U+52D5", "U+8A5E", "(", "U+904E", "U+53BB", "U+5206", "U+8A5E", ")">> >>
      [] code = <<"V", "B", "P">> ->
           << <<"V", "e", "r", "b", ",", " ", "n", "o", "n", "-", "3", "r", "d", " ", "p", "e", "r", "s", "o", "n", " ", "s", "i", "n", "g", "u", "l", "a", "r", " ", "p", "r", "e", "s", "e", "n", "t">>,
              <<"U+52D5", "U+8A5E", "(", "U+4E09", "U+4EBA", "U+79F0", "U+5358", "U+6570", "U+4EE5", "U+5916", "U+306E", "U+73FE", "U+5728", "U+5F62", ")">> >>
      [] code = <<"V", "B", "Z">> ->
           << <<"V", "e", "r", "b", ",", " ", "3", "r", "d", " ", "p", "e", "r", "s", "o", "n", " ", "s", "i", "n", "g", "u", "l", "a", "r", " ", "p", "r", "e", "s", "e", "n", "t">>,
              <<"U+52D5", "U+8A5E", "(", "U+4E09", "U+4EBA", "U+79F0", "U+5358", "U+6570", "U+306E", "U+73FE", "U+5728", "U+5F62", ")">> >>
      [] code = <<"W", "D", "T">> ->
           << <<"W", "h", "-", "d", "e", "t", "e", "r", "m", "i", "n", "e", "r">>,
              <<"W", "h", " ", "U+9650", "U+5B9A", "U+8A5E">> >>
      [] code = <<"W", "P">> ->
           << <<"W", "h", "-", "p", "r", "o", "n", "o", "u", "n">>,
              <<"W", "h", " ", "U+4EE3", "U+540D", "U+8A5E">> >>
      [] code = <<"W", "P", "$">> ->
           << <<"P", "o", "s", "s", "e", "s", "s", "i", "v", "e", " ", "w", "h", "-", "p", "r", "o", "n", "o", "u", "n">>,
              <<"U+6240", "U+6709", " ", "W", "h", " ", "U+4EE3", "U+540D", "U+8A5E">> >>
      [] code = <<"W", "R", "B">> ->
           << <<"W", "h", "-", "a", "d", "v", "e", "r", "b">>,
              <<"W", "h", " ", "U+526F", "U+8A5E">> >>
      [] code = <<",">> ->
           << <<",">>,
              <<",">> >>
      [] code = <<".">> ->
           << <<".">>,
              <<".">> >>
(***************************************************************************)
(* termcolor: COLORS in the order of its keys, and colored().              *)
(***************************************************************************)
COLORS ==
    << <<"black", 30>>, <<"grey", 30>>, <<"red", 31>>, <<"green", 32>>,
       <<"yellow", 33>>, <<"blue", 34>>, <<"magenta", 35>>, <<"cyan", 36>>,
       <<"light_grey", 37>>, <<"dark_grey", 90>>, <<"light_red", 91>>,
       <<"light_green", 92>>, <<"light_yellow", 93>>, <<"light_blue", 94>>,
       <<"light_magenta", 95>>, <<"light_cyan", 96>>, <<"white", 97>> >>

\* COLORS.keys()
COLORS_keys == [i \in DOMAIN COLORS |-> COLORS[i][1]]

ColorCode(color) ==
    LET i == CHOOSE j \in DOMAIN COLORS : COLORS[j][1] = color IN COLORS[i][2]

DigitChars == <<"0", "1", "2", "3", "4", "5", "6", "7", "8", "9">>

\* "%d" % n
RECURSIVE IntToStr(_)
IntToStr(n) ==
    IF n < 10 THEN <<DigitChars[n + 1]>>
    ELSE IntToStr(n \div 10) \o <<DigitChars[(n % 10) + 1]>>

RESET == <<"ESC", "[", "0", "m">>

\* colored(text, color): "\033[%dm%s" % (COLORS[color], text) + RESET, and the
\* text unchanged when the terminal cannot do colour (tty)
colored(text, color) ==
    IF tty THEN <<"ESC", "[">> \o IntToStr(ColorCode(color)) \o <<"m">> \o text \o RESET
    ELSE text

(***************************************************************************)
(* TextsFormatter.generate_color_tag                                       *)
(***************************************************************************)
\* as generate_color_tag, had it not removed the excluded colours
generate_color_tag_unfiltered(tag_names, to_remove) ==
    LET colors == COLORS_keys
        n == Min(Len(tag_names), Len(colors))
    IN [tag \in {tag_names[i] : i \in 1..n} |->
            colors[CHOOSE i \in 1..n :
                       /\ tag_names[i] = tag
                       /\ \A j \in 1..n : tag_names[j] = tag => j <= i]]

\* as generate_color_tag, had it cycled through the colours left
generate_color_tag_cycle(tag_names, to_remove) ==
    LET colors == SelectSeq(COLORS_keys, LAMBDA color : color \notin Range(to_remove))
        n == IF colors = <<>> THEN 0 ELSE Len(tag_names)
    IN [tag \in {tag_names[i] : i \in 1..n} |->
            colors[(((CHOOSE i \in 1..n :
                        /\ tag_names[i] = tag
                        /\ \A j \in 1..n : tag_names[j] = tag => j <= i) - 1)
                    % Len(colors)) + 1]]

generate_color_tag(tag_names, to_remove) ==
    LET colors == SelectSeq(COLORS_keys, LAMBDA color : color \notin Range(to_remove))
        n == Min(Len(tag_names), Len(colors))
    IN \* zip stops at the shorter list; a later pair of the same tag wins
       [tag \in {tag_names[i] : i \in 1..n} |->
            colors[CHOOSE i \in 1..n :
                       /\ tag_names[i] = tag
                       /\ \A j \in 1..n : tag_names[j] = tag => j <= i]]

(***************************************************************************)
(* TextsFormatter.format_token_tag_pairs                                   *)
(*                                                                         *)
(* The loop keeps, beside the three lines, the slot it appended to each    *)
(* line for every pair (token_slots, tag_slots, under_slots).              *)
(***************************************************************************)
\* set([tag for _, tag in token_tag_pairs])
DistinctTags(pairs) == {pairs[i][2] : i \in DOMAIN pairs}

LoopStart ==
    [ tag_list |-> {}, tokens |-> <<>>, under_line |-> <<>>,
      part_of_speech_line |-> <<>>, raised |-> FALSE,
      token_slots |-> <<>>, tag_slots |-> <<>>, under_slots |-> <<>> ]

\* as LoopBody, had it collected the tag before wrapping it in its colour
LoopBody_unwrapped(acc, pair, colors_of) ==
    LET token == pair[1]
        tag_length == adjust_length_ja_en(pair[2])
    IN IF acc.raised THEN acc
       ELSE IF color_enabled /\ pair[2] \notin DOMAIN colors_of
       THEN [acc EXCEPT !.raised = TRUE]       \* color_tag[tag]: KeyError
       ELSE
       LET color == IF color_enabled THEN colors_of[pair[2]] ELSE ""
           tag0 == IF color_enabled THEN colored(pair[2], color) ELSE pair[2]
           adjusted_length ==
               IF ~is_list THEN Max(Len(token), tag_length) ELSE Len(token)
           tag == IF ~is_list /\ tag_length < adjusted_length
                  THEN tag0 \o Repeat(" ", adjusted_length - tag_length)
                  ELSE tag0
           token_slot == ljust(token, adjusted_length, " ")
           plain_under_line == Repeat("U+2594", adjusted_length)
           token_under_line ==
               IF color_enabled THEN colored(plain_under_line, color)
               ELSE plain_under_line
       IN [ tag_list |-> IF is_list THEN acc.tag_list \cup {pair[2]} ELSE acc.tag_list,
            tokens |-> acc.tokens \o <<" ">> \o token_slot,
            under_line |-> acc.under_line \o <<" ">> \o token_under_line,
            part_of_speech_line |-> acc.part_of_speech_line \o <<" ">> \o tag,
            raised |-> FALSE,
            token_slots |-> Append(acc.token_slots, token_slot),
            tag_slots |-> Append(acc.tag_slots, tag),
            under_slots |-> Append(acc.under_slots, token_under_line) ]

\* one pass of the loop of lines 124-145
LoopBody(acc, pair, colors_of) ==
    LET token == pair[1]
        tag_length == adjust_length_ja_en(pair[2])
    IN IF acc.raised THEN acc
       ELSE IF color_enabled /\ pair[2] \notin DOMAIN colors_of
       THEN [acc EXCEPT !.raised = TRUE]       \* color_tag[tag]: KeyError
       ELSE
       LET color == IF color_enabled THEN colors_of[pair[2]] ELSE ""
           tag0 == IF color_enabled THEN colored(pair[2], color) ELSE pair[2]
           adjusted_length ==
               IF ~is_list THEN Max(Len(token), tag_length) ELSE Len(token)
           tag == IF ~is_list /\ tag_length < adjusted_length
                  THEN tag0 \o Repeat(" ", adjusted_length - tag_length)
                  ELSE tag0
           token_slot == ljust(token, adjusted_length, " ")
           plain_under_line == Repeat("U+2594", adjusted_length)
           token_under_line ==
               IF color_enabled THEN colored(plain_under_line, color)
               ELSE plain_under_line
       IN [ tag_list |-> IF is_list THEN acc.tag_list \cup {tag} ELSE acc.tag_list,
            tokens |-> acc.tokens \o <<" ">> \o token_slot,
            under_line |-> acc.under_line \o <<" ">> \o token_under_line,
            part_of_speech_line |-> acc.part_of_speech_line \o <<" ">> \o tag,
            raised |-> FALSE,
            token_slots |-> Append(acc.token_slots, token_slot),
            tag_slots |-> Append(acc.tag_slots, tag),
            under_slots |-> Append(acc.under_slots, token_under_line) ]

RECURSIVE Loop(_, _, _)
Loop(acc, pairs, colors_of) ==
    IF pairs = <<>> THEN acc
    ELSE Loop(LoopBody(acc, Head(pairs), colors_of), Tail(pairs), colors_of)

\* as Finish, had it listed the tags in the order of the set
Finish_unsorted(acc, list_order) ==
    LET bullets == [i \in DOMAIN list_order |-> <<"-", " ">> \o list_order[i]]
    IN [ raised |-> FALSE,
         value |-> << acc.tokens, acc.under_line,
                      IF is_list THEN join(<<"\n">>, bullets)
                      ELSE acc.part_of_speech_line >>,
         token_slots |-> acc.token_slots,
         tag_slots |-> acc.tag_slots,
         under_slots |-> acc.under_slots,
         bullets |-> IF is_list THEN bullets ELSE <<>> ]

\* lines 147-151, list_order being the order in which tag_list is iterated
Finish(acc, list_order) ==
    LET bullets == [i \in DOMAIN list_order |->
                       <<"-", " ">> \o sorted_by_len(list_order)[i]]
    IN [ raised |-> FALSE,
         value |-> << acc.tokens, acc.under_line,
                      IF is_list THEN join(<<"\n">>, bullets)
                      ELSE acc.part_of_speech_line >>,
         token_slots |-> acc.token_slots,
         tag_slots |-> acc.tag_slots,
         under_slots |-> acc.under_slots,
         bullets |-> IF is_list THEN bullets ELSE <<>> ]

Raised == [raised |-> TRUE]

\* every result the call may give: the orders of the two sets are not fixed
format_token_tag_pairs(pairs) ==
    UNION
    { LET acc == Loop(LoopStart, pairs,
                      generate_color_tag(tag_order, colors_to_remove))
      IN IF acc.raised THEN {Raised}
         ELSE {Finish(acc, list_order) : list_order \in IterationOrders(acc.tag_list)}
      : tag_order \in IterationOrders(DistinctTags(pairs)) }

(***************************************************************************)
(* Inputs of the model.                                                    *)
(***************************************************************************)
\* characters of the strings whose width is measured: narrow, Wide, Wide with
\* a compatibility decomposition (U+337F, U+338F) and Fullwidth (U+FF21)
WidthAlphabet == {"a", "U+540D", "U+8A5E", "U+337F", "U+338F", "U+FF21"}

\* (token, tag) pairs: a narrow token with two tags shorter than it and of
\* the same length and with a tag of Wide characters wider than it, and a
\* token of Wide characters
Fox == <<"f", "o", "x">>

Kennel == <<"U+72AC", "U+5C0F", "U+5C4B">>

Pairs ==
    { <<Fox, <<"D", "T">>>>,
      <<Fox, <<"N", "N">>>>,
      <<Fox, <<"U+5F62", "U+5BB9", "U+8A5E">>>>,
      <<Kennel, <<"N", "N">>>> }

\* colors_to_remove: the default, the list of the __main__ block, every
\* colour but "white", and the whole palette
ExclusionLists ==
    { <<>>,
      <<"black", "grey", "dark_grey">>,
      SelectSeq(COLORS_keys, LAMBDA color : color # "white"),
      COLORS_keys }

None == "None"

Idle == "off"

WidthIdle == /\ ja_string = <<>> /\ width = 0 /\ wpc = Idle

ComposeIdle ==
    /\ token_tag_pairs = <<>> /\ tags = <<>> /\ color_tag = <<>>
    /\ composed = Raised /\ cpc = Idle

FormatIdle ==
    /\ texts_data = <<>> /\ formatted_texts = <<>> /\ formatted_text = <<>>
    /\ fpc = Idle /\ translate_calls = <<>> /\ terminal_calls = <<>>
    /\ format_result = <<>> /\ format_error = None

AnalyzeIdle ==
    /\ tagged = <<>> /\ result = <<>> /\ analyze_result = <<>>
    /\ apc = Idle /\ lookups = 0

ReplIdle ==
    /\ running = FALSE /\ rpc = Idle /\ command = None /\ reads = <<>>
    /\ analyzed = <<>> /\ formatted = <<>> /\ printed = <<>>
    /\ start_calls = 0 /\ stop_calls = 0 /\ clear_calls = 0 /\ help_calls = 0
    /\ outcome = None

\* TextsFormatter.__init__: any configuration of the formatter
AnyFormatter ==
    /\ is_list \in BOOLEAN
    /\ color_enabled \in BOOLEAN
    /\ colors_to_remove \in ExclusionLists
    \* colored() is only called with colour enabled
    /\ tty \in (IF color_enabled THEN BOOLEAN ELSE {FALSE})

(***************************************************************************)
(* adjust_length_ja_en on its own.                                         *)
(***************************************************************************)
InitWidth ==
    /\ ja_string \in SeqsUpTo(WidthAlphabet, MaxLen)
    /\ width = 0 /\ wpc = "call"
    /\ is_list = FALSE /\ is_translate = FALSE /\ language_code = None
    /\ color_enabled = FALSE /\ colors_to_remove = <<>> /\ tty = FALSE
    /\ tag_type = "abbreviation"
    /\ ComposeIdle /\ FormatIdle /\ AnalyzeIdle /\ ReplIdle

AdjustLength ==
    /\ wpc = "call"
    /\ width' = adjust_length_ja_en(ja_string)
    /\ wpc' = "returned"
    /\ UNCHANGED <<ja_string, configVars, composeVars, formatVars,
                   analyzeVars, replVars>>

NextWidth == AdjustLength

SpecWidth == InitWidth /\ [][NextWidth]_vars

(***************************************************************************)
(* format_token_tag_pairs on its own: lines 117-118, then lines 120-151.   *)
(***************************************************************************)
InitCompose ==
    /\ AnyFormatter
    /\ is_translate = FALSE /\ language_code = None
    /\ tag_type = "abbreviation"
    /\ token_tag_pairs \in SeqsUpTo(Pairs, MaxPairs)
    /\ tags = <<>> /\ color_tag = <<>> /\ composed = Raised /\ cpc = "call"
    /\ WidthIdle /\ FormatIdle /\ AnalyzeIdle /\ ReplIdle

ComputeColorTag ==
    /\ cpc = "call"
    /\ \E tag_order \in IterationOrders(DistinctTags(token_tag_pairs)) :
          /\ tags' = tag_order
          /\ color_tag' = generate_color_tag(tag_order, colors_to_remove)
    /\ cpc' = "loop"
    /\ UNCHANGED <<token_tag_pairs, composed, widthVars, configVars,
                   formatVars, analyzeVars, replVars>>

ComposeLines ==
    /\ cpc = "loop"
    /\ LET acc == Loop(LoopStart, token_tag_pairs, color_tag)
       IN IF acc.raised
          THEN composed' = Raised /\ cpc' = "raised"
          ELSE /\ \E list_order \in IterationOrders(acc.tag_list) :
                     composed' = Finish(acc, list_order)
               /\ cpc' = "returned"
    /\ UNCHANGED <<token_tag_pairs, tags, color_tag, widthVars, configVars,
                   formatVars, analyzeVars, replVars>>

NextCompose == ComputeColorTag \/ ComposeLines

SpecCompose == InitCompose /\ [][NextCompose]_vars

(***************************************************************************)
(* MorphologicalAnalyzer.analyze on its own.  nltk is outside the          *)
(* repository: tagged holds what sent_tokenize, word_tokenize and pos_tag  *)
(* give for the text, one entry per sentence, each token with its tag      *)
(* code.  pos_tag also gives codes the tag table has no key for (":").     *)
(***************************************************************************)
Str_a == <<"a">>

Str_fox == <<"f", "o", "x">>

Str_runs == <<"r", "u", "n", "s">>

Str_quit == <<"q", "u", "i", "t">>

SentFox ==
    [ text |-> <<"a", " ", "f", "o", "x">>,
      token_tag_pairs |-> << <<Str_a, <<"D", "T">>>>, <<Str_fox, <<"N", "N">>>> >> ]

SentRuns ==
    [ text |-> <<"f", "o", "x", " ", "r", "u", "n", "s", ".">>,
      token_tag_pairs |-> << <<Str_fox, <<"N", "N">>>>,
                             <<Str_runs, <<"V", "B", "Z">>>>,
                             <<<<".">>, <<".">>>> >> ]

SentColon ==
    [ text |-> <<"a", ":", " ", "f", "o", "x">>,
      token_tag_pairs |-> << <<Str_a, <<"D", "T">>>>,
                             <<<<":">>, <<":">>>>,
                             <<Str_fox, <<"N", "N">>>> >> ]

SentQuit ==
    [ text |-> Str_quit,
      token_tag_pairs |-> << <<Str_quit, <<"V", "B">>>> >> ]

TaggedSentences == {SentFox, SentRuns, SentColon, SentQuit}

TagTypes == {"abbreviation", "expansion", "japanese"}

\* list(map(expression, tagged_tokens)) of lines 82-83: the pairs with every
\* tag looked up in the table, the number of look-ups made, and whether one
\* of them raised KeyError (the look-up of the first code that is no key)
\* as map_expression, had the look-up fallen back on the code itself
map_expression_get(pairs, index) ==
    [ raised |-> FALSE,
      lookups |-> Len(pairs),
      value |-> [i \in DOMAIN pairs |->
                    <<pairs[i][1],
                      IF pairs[i][2] \in tag_table_keys
                      THEN tag_table(pairs[i][2])[index] ELSE pairs[i][2]>>] ]

RECURSIVE map_expression(_, _)
map_expression(pairs, index) ==
    IF pairs = <<>> THEN [raised |-> FALSE, lookups |-> 0, value |-> <<>>]
    ELSE IF Head(pairs)[2] \notin tag_table_keys
    THEN [raised |-> TRUE, lookups |-> 1, value |-> <<>>]
    ELSE LET rest == map_expression(Tail(pairs), index)
         IN [ raised |-> rest.raised,
              lookups |-> rest.lookups + 1,
              value |-> IF rest.raised THEN <<>>
                        ELSE << <<Head(pairs)[1], tag_table(Head(pairs)[2])[index]>> >>
                             \o rest.value ]

InitAnalyze ==
    /\ tag_type \in TagTypes
    /\ tagged \in SeqsUpTo(TaggedSentences, MaxSentences)
    /\ result = <<>> /\ analyze_result = <<>> /\ apc = "loop" /\ lookups = 0
    /\ is_list = FALSE /\ is_translate = FALSE /\ language_code = None
    /\ color_enabled = FALSE /\ colors_to_remove = <<>> /\ tty = FALSE
    /\ WidthIdle /\ ComposeIdle /\ FormatIdle /\ ReplIdle

\* one pass of the loop of lines 73-84
AnalyzeSentence ==
    /\ apc = "loop"
    /\ Len(result) < Len(tagged)
    /\ LET sentence == tagged[Len(result) + 1]
           \* index 0 of a table entry is its first element, index 1 its second
           index == IF tag_type = "expansion" THEN 1 ELSE 2
           mapped == map_expression(sentence.token_tag_pairs, index)
       IN IF tag_type = "abbreviation"
          THEN /\ result' = Append(result, sentence)
               /\ UNCHANGED <<apc, lookups>>
          ELSE /\ lookups' = lookups + mapped.lookups
               /\ IF mapped.raised
                  THEN apc' = "raised" /\ UNCHANGED result
                  ELSE /\ result' = Append(result,
                              [text |-> sentence.text,
                               token_tag_pairs |-> mapped.value])
                       /\ UNCHANGED apc
    /\ UNCHANGED <<tag_type, tagged, analyze_result, widthVars, configVars,
                   composeVars, formatVars, replVars>>

\* line 86
AnalyzeReturn ==
    /\ apc = "loop"
    /\ Len(result) = Len(tagged)
    /\ analyze_result' = <<result>>
    /\ apc' = "returned"
    /\ UNCHANGED <<tag_type, tagged, result, lookups, widthVars, configVars,
                   composeVars, formatVars, replVars>>

NextAnalyze == AnalyzeSentence \/ AnalyzeReturn

SpecAnalyze == InitAnalyze /\ [][NextAnalyze]_vars

(***************************************************************************)
(* TextsFormatter.format, a step per collaborator call.  The sentence in   *)
(* work is the one after those already in formatted_texts.                 *)
(* translate_calls[i] and terminal_calls[i] log how each call made for     *)
(* sentence i to the translation backend and to os.get_terminal_size       *)
(* ended ("ok" or "failed").                                               *)
(***************************************************************************)
\* what analyze gives the formatter: a sentence with tag codes and one with
\* Japanese glosses
FormatSentences ==
    { SentFox,
      [ text |-> SentRuns.text,
        token_tag_pairs |-> map_expression(SentRuns.token_tag_pairs, 2).value ] }

\* what the backend may answer for a text: translator.translate(...).text
Translations(text) == { <<"U+72AC">> \o text }

LanguageCodes == {None, "ja"}

NoCalls(data) == [i \in DOMAIN data |-> <<>>]

InitFormat ==
    /\ AnyFormatter
    /\ is_translate \in BOOLEAN
    \* translate() is only called with is_translate set
    /\ language_code \in (IF is_translate THEN LanguageCodes ELSE {None})
    /\ tag_type = "abbreviation"
    /\ texts_data \in SeqsUpTo(FormatSentences, MaxSentences)
    /\ formatted_texts = <<>> /\ formatted_text = <<>> /\ fpc = "compose"
    /\ translate_calls = NoCalls(texts_data)
    /\ terminal_calls = NoCalls(texts_data)
    /\ format_result = <<>> /\ format_error = None
    /\ WidthIdle /\ ComposeIdle /\ AnalyzeIdle /\ ReplIdle

Sentence == Len(formatted_texts) + 1

\* lines 155-159
FormatCompose ==
    /\ fpc = "compose"
    /\ Sentence <= Len(texts_data)
    /\ \E lines \in format_token_tag_pairs(texts_data[Sentence].token_tag_pairs) :
          IF lines.raised
          THEN /\ fpc' = "raised" /\ format_error' = "KeyError"
               /\ UNCHANGED formatted_text
          ELSE /\ formatted_text' = lines.value
               /\ fpc' = IF is_translate THEN "translate" ELSE "terminal"
               /\ UNCHANGED format_error
    /\ UNCHANGED <<texts_data, formatted_texts, translate_calls, terminal_calls,
                   format_result, widthVars, configVars, composeVars,
                   analyzeVars, replVars>>

\* as FormatTranslate, had a failed translation been replaced by the text
FormatTranslate_fallback ==
    /\ fpc = "translate"
    /\ \/ /\ language_code = None
          /\ UNCHANGED translate_calls
       \/ /\ language_code # None
          /\ translate_calls' =
                 [translate_calls EXCEPT ![Sentence] = Append(@, "failed")]
    /\ formatted_text' =
           Append(formatted_text, <<"\n">> \o texts_data[Sentence].text)
    /\ fpc' = "terminal"
    /\ UNCHANGED <<texts_data, formatted_texts, terminal_calls, format_result,
                   format_error, widthVars, configVars, composeVars,
                   analyzeVars, replVars>>

\* lines 160-162 with translate() of lines 170-175 (and of lines 214-223:
\* the text itself without a language code, the backend's answer otherwise)
FormatTranslate ==
    /\ fpc = "translate"
    /\ \/ /\ language_code = None
          /\ formatted_text' =
                 Append(formatted_text, <<"\n">> \o texts_data[Sentence].text)
          /\ fpc' = "terminal"
          /\ UNCHANGED <<translate_calls, format_error>>
       \/ /\ language_code # None
          /\ \E translated_text \in Translations(texts_data[Sentence].text) :
                formatted_text' = Append(formatted_text, <<"\n">> \o translated_text)
          /\ translate_calls' =
                 [translate_calls EXCEPT ![Sentence] = Append(@, "ok")]
          /\ fpc' = "terminal"
          /\ UNCHANGED format_error
       \/ /\ language_code # None
          /\ translate_calls' =
                 [translate_calls EXCEPT ![Sentence] = Append(@, "failed")]
          /\ fpc' = "raised" /\ format_error' = "TranslateError"
          /\ UNCHANGED formatted_text
    /\ UNCHANGED <<texts_data, formatted_texts, terminal_calls, format_result,
                   widthVars, configVars, composeVars, analyzeVars, replVars>>

\* lines 164-166
FormatTerminal ==
    /\ fpc = "terminal"
    /\ \/ \E columns \in 1..MaxColumns :
             LET block == Append(formatted_text,
                                 <<"\n">> \o Repeat("U+2500", columns) \o <<"\n">>)
             IN /\ formatted_texts' = Append(formatted_texts, join(<<"\n">>, block))
                /\ formatted_text' = <<>>
                /\ terminal_calls' =
                       [terminal_calls EXCEPT ![Sentence] = Append(@, "ok")]
                /\ fpc' = "compose"
                /\ UNCHANGED format_error
       \/ /\ terminal_calls' =
                 [terminal_calls EXCEPT ![Sentence] = Append(@, "failed")]
          /\ fpc' = "raised" /\ format_error' = "OSError"
          /\ UNCHANGED <<formatted_texts, formatted_text>>
    /\ UNCHANGED <<texts_data, translate_calls, format_result,
                   widthVars, configVars, composeVars, analyzeVars, replVars>>

\* line 168
FormatReturn ==
    /\ fpc = "compose"
    /\ Sentence > Len(texts_data)
    /\ format_result' = <<join(<<"\n">>, formatted_texts)>>
    /\ fpc' = "returned"
    /\ UNCHANGED <<texts_data, formatted_texts, formatted_text, translate_calls,
                   terminal_calls, format_error, widthVars, configVars,
                   composeVars, analyzeVars, replVars>>

NextFormat == FormatCompose \/ FormatTranslate \/ FormatTerminal \/ FormatReturn

SpecFormat == InitFormat /\ [][NextFormat]_vars

(***************************************************************************)
(* InteractiveMode.run.  A text line is analyzed by the analyzer's steps   *)
(* and formatted by the formatter's steps above; an exception that leaves  *)
(* either of them, or input(), leaves run() as well.                       *)
(***************************************************************************)
\* the lines input() may return that are no command, with what nltk gives
\* for each: "" has no sentence, "quit" is not exactly "q"
TextLines == {"", "quit", "a fox", "a: fox", "fox runs. a fox"}

Commands == {"q", "c", "help"}

Tagger(line) ==
    CASE line = "" -> <<>>
      [] line = "quit" -> <<SentQuit>>
      [] line = "a fox" -> <<SentFox>>
      [] line = "a: fox" -> <<SentColon>>
      [] line = "fox runs. a fox" -> <<SentRuns, SentFox>>

\* the objects run() is given: those of the __main__ block (lines 291-298),
\* the defaults of both constructors, and a list-mode formatter left with a
\* single colour
Configurations ==
    { [ tag_type |-> "japanese", is_list |-> FALSE, is_translate |-> TRUE,
        language_code |-> "ja", color_enabled |-> TRUE,
        colors_to_remove |-> <<"black", "grey", "dark_grey">>, tty |-> TRUE ],
      [ tag_type |-> "abbreviation", is_list |-> FALSE, is_translate |-> FALSE,
        language_code |-> None, color_enabled |-> FALSE,
        colors_to_remove |-> <<>>, tty |-> FALSE ],
      [ tag_type |-> "expansion", is_list |-> TRUE, is_translate |-> TRUE,
        language_code |-> None, color_enabled |-> TRUE,
        colors_to_remove |-> SelectSeq(COLORS_keys, LAMBDA color : color # "white"),
        tty |-> TRUE ] }

\* lines 232-234
InitRepl ==
    /\ \E c \in Configurations :
          /\ tag_type = c.tag_type /\ is_list = c.is_list
          /\ is_translate = c.is_translate /\ language_code = c.language_code
          /\ color_enabled = c.color_enabled
          /\ colors_to_remove = c.colors_to_remove /\ tty = c.tty
    /\ running = FALSE /\ rpc = "new" /\ command = None /\ reads = <<>>
    /\ analyzed = <<>> /\ formatted = <<>> /\ printed = <<>>
    /\ start_calls = 0 /\ stop_calls = 0 /\ clear_calls = 0 /\ help_calls = 0
    /\ outcome = None
    /\ WidthIdle /\ ComposeIdle /\ FormatIdle /\ AnalyzeIdle

\* lines 250-251: clear(), then start()
RunStart ==
    /\ rpc = "new"
    /\ clear_calls' = clear_calls + 1
    /\ running' = TRUE
    /\ start_calls' = start_calls + 1
    /\ rpc' = "read"
    /\ UNCHANGED <<command, reads, analyzed, formatted, printed, stop_calls,
                   help_calls, outcome, widthVars, configVars, composeVars,
                   formatVars, analyzeVars>>

\* as Stop, had stop() left the flag alone
Stop_flag_kept ==
    /\ running' = running
    /\ stop_calls' = stop_calls + 1
    /\ rpc' = "ended"

\* line 275 and stop()
Stop ==
    /\ running' = FALSE
    /\ stop_calls' = stop_calls + 1
    /\ rpc' = "ended"

\* lines 253-257: KeyboardInterrupt while input() waits
ReadInterrupt ==
    /\ rpc = "read" /\ running
    /\ Stop
    /\ outcome' = "interrupt"
    /\ UNCHANGED <<command, reads, analyzed, formatted, printed, start_calls,
                   clear_calls, help_calls, widthVars, configVars, composeVars,
                   formatVars, analyzeVars>>

\* line 255: input() at the end of the input raises EOFError, which no
\* except clause catches
ReadEndOfInput ==
    /\ rpc = "read" /\ running
    /\ rpc' = "crashed"
    /\ outcome' = "EOFError"
    /\ UNCHANGED <<running, command, reads, analyzed, formatted, printed,
                   start_calls, stop_calls, clear_calls, help_calls, widthVars,
                   configVars, composeVars, formatVars, analyzeVars>>

\* lines 259-261
ReadQuit ==
    /\ rpc = "read" /\ running
    /\ Len(reads) < MaxReads
    /\ command' = "q"
    /\ reads' = Append(reads, "q")
    /\ Stop
    /\ outcome' = "q"
    /\ UNCHANGED <<analyzed, formatted, printed, start_calls, clear_calls,
                   help_calls, widthVars, configVars, composeVars, formatVars,
                   analyzeVars>>

\* lines 262-264
ReadClear ==
    /\ rpc = "read" /\ running
    /\ Len(reads) < MaxReads
    /\ command' = "c"
    /\ reads' = Append(reads, "c")
    /\ clear_calls' = clear_calls + 1
    /\ UNCHANGED <<running, rpc, analyzed, formatted, printed, start_calls,
                   stop_calls, help_calls, outcome, widthVars, configVars,
                   composeVars, formatVars, analyzeVars>>

\* as ReadHelp, had the case lacked its continue: "help" is analyzed too
ReadHelp_falls_through ==
    /\ rpc = "read" /\ running
    /\ Len(reads) < MaxReads
    /\ command' = "help"
    /\ reads' = Append(reads, "help")
    /\ help_calls' = help_calls + 1
    /\ analyzed' = Append(analyzed, "help")
    /\ tagged' = <<>>
    /\ result' = <<>> /\ analyze_result' = <<>> /\ apc' = "loop" /\ lookups' = 0
    /\ rpc' = "analyze"
    /\ UNCHANGED <<running, formatted, printed, start_calls, stop_calls,
                   clear_calls, outcome, tag_type, widthVars, configVars,
                   composeVars, formatVars>>

\* lines 265-267
ReadHelp ==
    /\ rpc = "read" /\ running
    /\ Len(reads) < MaxReads
    /\ command' = "help"
    /\ reads' = Append(reads, "help")
    /\ help_calls' = help_calls + 1
    /\ UNCHANGED <<running, rpc, analyzed, formatted, printed, start_calls,
                   stop_calls, clear_calls, outcome, widthVars, configVars,
                   composeVars, formatVars, analyzeVars>>

\* lines 268-271: any other line; analyze(command) is entered
ReadText ==
    /\ rpc = "read" /\ running
    /\ Len(reads) < MaxReads
    /\ \E line \in TextLines :
          /\ command' = line
          /\ reads' = Append(reads, line)
          /\ analyzed' = Append(analyzed, line)
          /\ tagged' = Tagger(line)
    /\ result' = <<>> /\ analyze_result' = <<>> /\ apc' = "loop" /\ lookups' = 0
    /\ rpc' = "analyze"
    /\ UNCHANGED <<running, formatted, printed, start_calls, stop_calls,
                   clear_calls, help_calls, outcome, tag_type, widthVars,
                   configVars, composeVars, formatVars>>

\* line 272: analyze returned, format(analyzed_texts) is entered
EnterFormat ==
    /\ rpc = "analyze" /\ apc = "returned"
    /\ formatted' = Append(formatted, command)
    /\ texts_data' = analyze_result[1]
    /\ formatted_texts' = <<>> /\ formatted_text' = <<>> /\ fpc' = "compose"
    /\ translate_calls' = NoCalls(analyze_result[1])
    /\ terminal_calls' = NoCalls(analyze_result[1])
    /\ format_result' = <<>> /\ format_error' = None
    /\ rpc' = "format"
    /\ UNCHANGED <<running, command, reads, analyzed, printed, start_calls,
                   stop_calls, clear_calls, help_calls, outcome, widthVars,
                   configVars, composeVars, analyzeVars>>

\* line 273: format returned; print, and back to the head of the loop with
\* the locals of both calls gone
PrintFormatted ==
    /\ rpc = "format" /\ fpc = "returned"
    /\ printed' = Append(printed, command)
    /\ rpc' = "read"
    /\ texts_data' = <<>> /\ formatted_texts' = <<>> /\ formatted_text' = <<>>
    /\ fpc' = Idle /\ translate_calls' = <<>> /\ terminal_calls' = <<>>
    /\ format_result' = <<>> /\ format_error' = None
    /\ tagged' = <<>> /\ result' = <<>> /\ analyze_result' = <<>>
    /\ apc' = Idle /\ lookups' = 0
    /\ UNCHANGED <<running, command, reads, analyzed, formatted, start_calls,
                   stop_calls, clear_calls, help_calls, outcome, tag_type,
                   widthVars, configVars, composeVars>>

\* lines 271-272: the KeyError of analyze, or the error of format, is caught
\* nowhere in run() and leaves it before line 275
ErrorEscapes ==
    /\ \/ /\ rpc = "analyze" /\ apc = "raised"
          /\ outcome' = "KeyError"
       \/ /\ rpc = "format" /\ fpc = "raised"
          /\ outcome' = format_error
    /\ rpc' = "crashed"
    /\ UNCHANGED <<running, command, reads, analyzed, formatted, printed,
                   start_calls, stop_calls, clear_calls, help_calls, widthVars,
                   configVars, composeVars, formatVars, analyzeVars>>

\* the steps of analyze and of format run only inside run()'s calls of them
NextRepl ==
    \/ RunStart
    \/ ReadInterrupt
    \/ ReadEndOfInput
    \/ ReadQuit
    \/ ReadClear
    \/ ReadHelp
    \/ ReadText
    \/ (rpc = "analyze" /\ AnalyzeSentence)
    \/ (rpc = "analyze" /\ AnalyzeReturn)
    \/ EnterFormat
    \/ (rpc = "format" /\ FormatCompose)
    \/ (rpc = "format" /\ FormatTranslate)
    \/ (rpc = "format" /\ FormatTerminal)
    \/ (rpc = "format" /\ FormatReturn)
    \/ PrintFormatted
    \/ ErrorEscapes

SpecRepl == InitRepl /\ [][NextRepl]_vars

(***************************************************************************)
(* Reading the output back: what a terminal shows of a string.             *)
(***************************************************************************)
\* the string without its colour escape sequences (ESC [ digits m)
RECURSIVE StripEscapes(_, _)
StripEscapes(str, inside) ==
    IF str = <<>> THEN <<>>
    ELSE IF inside
    THEN StripEscapes(Tail(str), Head(str) # "m")
    ELSE IF Head(str) = "ESC" THEN StripEscapes(Tail(str), TRUE)
    ELSE <<Head(str)>> \o StripEscapes(Tail(str), FALSE)

Visible(str) == StripEscapes(str, FALSE)

\* the lines of a text: str.split("\n"), and no line for the empty text
RECURSIVE SplitLines(_, _)
SplitLines(str, line) ==
    IF str = <<>> THEN <<line>>
    ELSE IF Head(str) = "\n" THEN <<line>> \o SplitLines(Tail(str), <<>>)
    ELSE SplitLines(Tail(str), Append(line, Head(str)))

LinesOf(text) == IF text = <<>> THEN <<>> ELSE SplitLines(text, <<>>)

\* a bullet line without its "- " prefix
Unbullet(line) == SubSeq(line, 3, Len(line))

IsBullet(line) == Len(line) >= 2 /\ line[1] = "-" /\ line[2] = " "

Injective(f) == \A a, b \in DOMAIN f : a # b => f[a] # f[b]

NonDecreasingLen(lines) ==
    \A i, j \in DOMAIN lines : i <= j => Len(lines[i]) <= Len(lines[j])

\* the colours left once the excluded ones are removed
Remaining == Range(COLORS_keys) \ Range(colors_to_remove)

AllWide(str) == \A i \in DOMAIN str : east_asian_width(str[i]) = "W"

(***************************************************************************)
(* C7.  For every string made only of East-Asian Wide characters,          *)
(* adjust_length_ja_en gives twice the number of characters of the string  *)
(* as given (before normalization), also when NFKC decomposes a character; *)
(* the empty string gives 0.                                               *)
(***************************************************************************)
C7_WideStringIsTwiceItsLength ==
    (wpc = "returned" /\ AllWide(ja_string)) => width = 2 * Len(ja_string)

(***************************************************************************)
(* C2.  Inline mode: for every pair i the token line's slot and the tag    *)
(* line's slot have the same display width, namely                         *)
(* max(len(token), displayWidth(tag)), for narrow and for Wide tokens,     *)
(* with colour on or off (escape sequences take no column).                *)
(***************************************************************************)
DisplayWidth(slot) == adjust_length_ja_en(Visible(slot))

C2_InlineSlotsHaveColumnWidth ==
    (cpc = "returned" /\ ~is_list) =>
        \A i \in DOMAIN token_tag_pairs :
            LET columnWidth == Max(Len(token_tag_pairs[i][1]),
                                   adjust_length_ja_en(token_tag_pairs[i][2]))
            IN /\ DisplayWidth(composed.token_slots[i]) = columnWidth
               /\ DisplayWidth(composed.tag_slots[i]) = columnWidth

\* the text format_token_tag_pairs returned in third place, line by line
ListLines == LinesOf(composed.value[3])

\* the tag a bullet line lists: the line without "- " and colour escapes
ListedTag(line) == Visible(Unbullet(line))

(***************************************************************************)
(* C3.  List mode: the third element returned is a bullet list, one line   *)
(* starting with "- " per entry; the tags it lists are the distinct tags   *)
(* of the pairs, each exactly once, in non-decreasing order of tag length; *)
(* no pair gives the empty text.  (The tag of a line is read as a terminal *)
(* shows it; what wraps it when colour is enabled is the matter of C8.)    *)
(***************************************************************************)
C3_ListModeListsDistinctTagsByLength ==
    (cpc = "returned" /\ is_list) =>
        /\ \A i \in DOMAIN ListLines : IsBullet(ListLines[i])
        /\ {ListedTag(ListLines[i]) : i \in DOMAIN ListLines}
               = DistinctTags(token_tag_pairs)
        /\ Len(ListLines) = Cardinality(DistinctTags(token_tag_pairs))
        /\ NonDecreasingLen([i \in DOMAIN ListLines |-> ListedTag(ListLines[i])])
        /\ (token_tag_pairs = <<>> => composed.value[3] = <<>>)

\* a returned list of three pairs, two of them with the same tag, whose two
\* distinct tags differ in length, the longer one met first
C3_Witness ==
    /\ cpc = "returned" /\ is_list
    /\ Len(token_tag_pairs) = 3
    /\ token_tag_pairs[1][2] = token_tag_pairs[3][2]
    /\ Len(token_tag_pairs[1][2]) > Len(token_tag_pairs[2][2])
    /\ Len(ListLines) = 2

(***************************************************************************)
(* C4.  When the N distinct tags are at most as many as the colours left   *)
(* after exclusion, generate_color_tag maps exactly those N tags, to N     *)
(* distinct colour names, all of the palette and none of them excluded.    *)
(***************************************************************************)
C4_ColorTagIsInjectiveOntoAllowedColors ==
    (cpc \in {"loop", "returned", "raised"}
         /\ Len(tags) <= Cardinality(Remaining)) =>
        /\ DOMAIN color_tag = DistinctTags(token_tag_pairs)
        /\ Injective(color_tag)
        /\ Cardinality(Range(color_tag)) = Len(tags)
        /\ Range(color_tag) \subseteq Range(COLORS_keys)
        /\ Range(color_tag) \cap Range(colors_to_remove) = {}

\* three tags coloured from a palette with colours excluded
C4_Witness ==
    /\ cpc = "loop" /\ Len(tags) = 3
    /\ colors_to_remove # <<>>
    /\ Cardinality(DOMAIN color_tag) = 3

(***************************************************************************)
(* C8 as stated.  List mode with colour enabled: each bullet line is "- "  *)
(* followed by exactly the original tag, with no escape sequence.          *)
(***************************************************************************)
C8_BulletsAreUnwrappedTags ==
    (cpc = "returned" /\ is_list /\ color_enabled) =>
        \A i \in DOMAIN ListLines :
            \E tag \in DistinctTags(token_tag_pairs) :
                ListLines[i] = <<"-", " ">> \o tag

(***************************************************************************)
(* C8 as amended.  List mode with colour enabled: each bullet line is "- " *)
(* followed by the tag as colored() returned it for the tag's assigned     *)
(* colour (wrapped in the escape sequence whenever colored() emits one);   *)
(* de-duplication and the sort use that text.  Every distinct tag gives    *)
(* one line, and without the escape sequences the lines are the distinct   *)
(* tags in non-decreasing order of their own length.                       *)
(***************************************************************************)
C8_BulletsAreColoredTags ==
    (cpc = "returned" /\ is_list /\ color_enabled) =>
        /\ \A i \in DOMAIN ListLines :
               \E tag \in DistinctTags(token_tag_pairs) :
                   ListLines[i] = <<"-", " ">> \o colored(tag, color_tag[tag])
        /\ \A tag \in DistinctTags(token_tag_pairs) :
               Cardinality({i \in DOMAIN ListLines :
                   ListLines[i] = <<"-", " ">> \o colored(tag, color_tag[tag])}) = 1
        /\ NonDecreasingLen(ListLines)
        /\ NonDecreasingLen([i \in DOMAIN ListLines |-> ListedTag(ListLines[i])])

\* a coloured list of two tags of different lengths on a colour terminal
C8_Witness ==
    /\ cpc = "returned" /\ is_list /\ color_enabled /\ tty
    /\ Len(ListLines) = 2
    /\ Len(ListedTag(ListLines[1])) < Len(ListedTag(ListLines[2]))
    /\ ListLines[1] # <<"-", " ">> \o ListedTag(ListLines[1])

(***************************************************************************)
(* C9.  generate_color_tag never fails (the step that calls it always ends *)
(* with its mapping); given more distinct tags than colours left it maps   *)
(* only as many tags as colours are left, each to a colour of its own.     *)
(* format_token_tag_pairs fails (lookup error) exactly when colour is      *)
(* enabled and the pairs have more distinct tags than colours are left;    *)
(* with colour disabled it always returns.                                 *)
(***************************************************************************)
C9_PaletteExhaustion ==
    /\ [][cpc = "call" => cpc' = "loop"]_vars
    /\ [](cpc \in {"loop", "returned", "raised"} =>
            /\ Cardinality(DOMAIN color_tag)
                   = Min(Len(tags), Cardinality(Remaining))
            /\ DOMAIN color_tag \subseteq DistinctTags(token_tag_pairs)
            /\ Injective(color_tag))
    /\ [](cpc \in {"returned", "raised"} =>
            (cpc = "raised" <=>
                (color_enabled /\ Len(tags) > Cardinality(Remaining))))

\* the call failed with one of its two tags coloured
C9_Witness ==
    /\ cpc = "raised"
    /\ Len(tags) = 2 /\ Cardinality(DOMAIN color_tag) = 1

(***************************************************************************)
(* C6.  In "expansion" or "japanese" mode analyze fails with a lookup      *)
(* error, returning nothing for any sentence (those before the offending   *)
(* one included), whenever the tagger gave some token a code that is no    *)
(* key of the tag table; otherwise every tag is replaced by the table's    *)
(* expansion (index 0) or Japanese gloss (index 1), tokens and their order *)
(* unchanged.  In "abbreviation" mode the table is never consulted: the    *)
(* tagger's codes come back unchanged and no lookup error can occur.       *)
(***************************************************************************)
HasUnknownCode ==
    \E i \in DOMAIN tagged : \E j \in DOMAIN tagged[i].token_tag_pairs :
        tagged[i].token_tag_pairs[j][2] \notin tag_table_keys

C6_AnalyzeLooksTagsUpOrFails ==
    /\ (apc # "returned" => analyze_result = <<>>)
    /\ (apc \in {"returned", "raised"} =>
            (apc = "raised" <=> (tag_type # "abbreviation" /\ HasUnknownCode)))
    /\ (tag_type = "abbreviation" =>
            /\ lookups = 0
            /\ (apc = "returned" => analyze_result = <<tagged>>))
    /\ (apc = "returned" /\ tag_type # "abbreviation" =>
            /\ Len(analyze_result[1]) = Len(tagged)
            /\ \A i \in DOMAIN tagged :
                   LET given == tagged[i].token_tag_pairs
                       got == analyze_result[1][i].token_tag_pairs
                   IN /\ analyze_result[1][i].text = tagged[i].text
                      /\ Len(got) = Len(given)
                      /\ \A j \in DOMAIN given :
                             /\ got[j][1] = given[j][1]
                             /\ got[j][2] =
                                    tag_table(given[j][2])
                                        [IF tag_type = "expansion" THEN 1 ELSE 2])

\* the lookup failed in the second sentence, the first one being analyzed
C6_Witness ==
    /\ apc = "raised" /\ tag_type = "japanese"
    /\ Len(tagged) = 2 /\ Len(result) = 1
    /\ analyze_result = <<>>

(***************************************************************************)
(* C5.  format is all-or-nothing on collaborator failure: when the         *)
(* translation call or the terminal-width query fails for sentence k,      *)
(* format ends with that error and returns no string (neither the blocks   *)
(* of the sentences before k nor part of k's); the failed call is not      *)
(* retried (each collaborator is called at most once per sentence) and no  *)
(* collaborator is called for a sentence after k.                          *)
(***************************************************************************)
Failed(calls) == {i \in DOMAIN calls : \E n \in DOMAIN calls[i] : calls[i][n] = "failed"}

C5_FormatIsAllOrNothing ==
    /\ (fpc # "returned" => format_result = <<>>)
    /\ \A i \in DOMAIN texts_data :
           /\ Len(translate_calls[i]) <= 1
           /\ Len(terminal_calls[i]) <= 1
           /\ (i > Sentence => translate_calls[i] = <<>> /\ terminal_calls[i] = <<>>)
    /\ (Failed(translate_calls) # {} =>
            /\ fpc = "raised" /\ format_error = "TranslateError"
            /\ Failed(translate_calls) = {Sentence}
            /\ terminal_calls[Sentence] = <<>>)
    /\ (Failed(terminal_calls) # {} =>
            /\ fpc = "raised" /\ format_error = "OSError"
            /\ Failed(terminal_calls) = {Sentence})
    /\ (fpc = "raised" => format_result = <<>>)

\* the translation of the second sentence failed, the first block being made
C5_Witness ==
    /\ fpc = "raised" /\ format_error = "TranslateError"
    /\ Len(texts_data) = 2 /\ Len(formatted_texts) = 1
    /\ translate_calls = << <<"ok">>, <<"failed">> >>
    /\ format_result = <<>>

(***************************************************************************)
(* The lines read so far that are text, and the commands among them.       *)
(***************************************************************************)
TextRead == SelectSeq(reads, LAMBDA line : line \notin Commands)

Count(line) == Cardinality({i \in DOMAIN reads : reads[i] = line})

AllButLast(seq) == SubSeq(seq, 1, Len(seq) - 1)

RunEnded == rpc \in {"ended", "crashed"}

(***************************************************************************)
(* C1 as stated.  Once run() has ended, the analyzer and the formatter     *)
(* have each been invoked exactly once, in input order, for every line     *)
(* read that is not exactly "q", "c" or "help".                            *)
(***************************************************************************)
C1_EveryTextLineAnalyzedAndFormatted ==
    RunEnded => /\ analyzed = TextRead
                /\ formatted = TextRead

(***************************************************************************)
(* C1 as amended.  The analyzer is invoked exactly once, in input order,   *)
(* for each line read that is not exactly "q", "c" or "help", and the      *)
(* formatter exactly once for each of these lines whose analysis returned; *)
(* the output is printed for each line whose formatting returned.  A "c"   *)
(* line only clears the screen and a "help" line only prints usage.  The   *)
(* loop ends at the first "q" line, at an interrupt during the read, at    *)
(* the end of the input during the read, and at the first error that       *)
(* analyze or format raises (that line is then not formatted, or not       *)
(* printed); once it has ended no line is read or analyzed.                *)
(***************************************************************************)
C1_TextLinesAnalyzedUntilTheLoopEnds ==
    /\ [](/\ analyzed = TextRead
          /\ formatted = IF rpc = "analyze" \/ (rpc = "crashed" /\ apc = "raised")
                         THEN AllButLast(analyzed) ELSE analyzed
          /\ printed = IF rpc = "format" \/ (rpc = "crashed" /\ fpc = "raised")
                       THEN AllButLast(formatted) ELSE formatted
          /\ (rpc # "new" => clear_calls = 1 + Count("c"))
          /\ help_calls = Count("help")
          /\ \A i \in DOMAIN reads : reads[i] = "q" => i = Len(reads)
          /\ (outcome = "q" <=> (reads # <<>> /\ reads[Len(reads)] = "q"))
          /\ (rpc = "ended" <=> outcome \in {"q", "interrupt"})
          /\ (rpc = "crashed" <=>
                  outcome \in {"EOFError", "KeyError", "TranslateError", "OSError"})
          /\ (outcome \in {"KeyError", "TranslateError", "OSError"} =>
                  apc = "raised" \/ fpc = "raised"))
    /\ [][RunEnded => UNCHANGED <<reads, analyzed, formatted, printed>>]_vars

\* a text line was analyzed, formatted and printed, a help line only printed
\* usage, and the analysis of the third line raised: it was not formatted
C1_Witness ==
    /\ rpc = "crashed" /\ outcome = "KeyError" /\ apc = "raised"
    /\ reads = <<"a fox", "help", "a: fox">>
    /\ analyzed = <<"a fox", "a: fox">>
    /\ formatted = <<"a fox">> /\ printed = <<"a fox">>
    /\ help_calls = 1

(***************************************************************************)
(* C10 as stated.  running is false after construction, true from start()  *)
(* during every read and every command processed, and false again, with    *)
(* stop() called exactly once, as soon as run() has ended, whichever way   *)
(* it ended: a "q" line, an interrupt during the read, or an error         *)
(* escaping from analyze or format.                                        *)
(***************************************************************************)
C10_StoppedHoweverRunEnded ==
    /\ (rpc = "new" => ~running /\ stop_calls = 0)
    /\ (rpc \in {"read", "analyze", "format"} => running /\ stop_calls = 0)
    /\ (RunEnded => ~running /\ stop_calls = 1)

(***************************************************************************)
(* C10 as amended.  running is false after construction and true from      *)
(* start() during every read and every command processed.  When run()      *)
(* ends by a "q" line or by an interrupt during the read, running is false *)
(* again and stop() has been called exactly once.  When run() ends by an   *)
(* error escaping from analyze or format, or by the end of the input at    *)
(* the read, stop() is not called and running stays true.                  *)
(***************************************************************************)
C10_StoppedOnQuitOrInterruptOnly ==
    /\ (rpc = "new" => ~running /\ stop_calls = 0 /\ start_calls = 0)
    /\ (rpc \in {"read", "analyze", "format"} =>
            running /\ stop_calls = 0 /\ start_calls = 1)
    /\ (rpc = "ended" =>
            ~running /\ stop_calls = 1 /\ outcome \in {"q", "interrupt"})
    /\ (rpc = "crashed" =>
            /\ running /\ stop_calls = 0
            /\ outcome \in {"EOFError", "KeyError", "TranslateError", "OSError"})
    /\ (outcome \in {"q", "interrupt"} => rpc = "ended")

\* run() ended by "q" after a text line was processed
C10_Witness ==
    /\ rpc = "ended" /\ outcome = "q"
    /\ printed # <<>>
    /\ ~running /\ stop_calls = 1

====
